---- MODULE Spec2Model ----
(***************************************************************************)
(* Model of the detection pipeline of saung-cv-obj-detection:              *)
(*   - ObjectDetectionService (src/app/services/objectDetection.ts):       *)
(*     loadModel, detectObjects, postprocessOutput, applyNMS, calculateIoU *)
(*   - useObjectDetection (src/app/hooks/useSpectralBridge.ts):            *)
(*     startDetection / detectLoop / detect, stopDetection, detectOnce     *)
(*                                                                         *)
(* Numbers.  Floats are modelled by exact integers in fixed units:         *)
(*   values of an output tensor     : units of 1/100 (a score 0.95 is 95,  *)
(*       a coordinate of 272 pixels is 27200), so a confidence             *)
(*       (objectness * score) is in units of 1/10000;                      *)
(*   bbox components                : units of 1/(2*inputSize) = 1/1280,   *)
(*       so that (cx - w/2)/inputSize is (2*cx - w)/100 for cx, w in 1/100;*)
(*       the tensors of the model hold whole pixels where geometry is read,*)
(*       which makes that division exact;                                  *)
(*   an IoU is the pair <<intersectionArea, unionArea>>; 0/0 is NaN.       *)
(* Time is in milliseconds and advances from one timer expiry to the next. *)
(***************************************************************************)
EXTENDS Integers, Sequences, FiniteSets, TLC

VARIABLES
    \* ObjectDetectionService (the exported singleton)
    session,             \* <<>> for null, else <<[inputNames, outputNames]>>
    modelLoaded,         \* this.modelLoaded
    hasLoggedModelInfo,  \* this.hasLoggedModelInfo
    mismatchWarnings,    \* number of console.warn calls of line 233
    calls,               \* the detectObjects calls made so far, by call id
    last,                \* how the call that settled last went
    timers,              \* pending setTimeout callbacks, in creation order
    \* useObjectDetection
    enabled,             \* options.enabled
    options,             \* detectionInterval and confidenceThreshold
    isModelLoaded,       \* React state isModelLoaded
    error,               \* React state error ("" for null)
    isDetecting,         \* React state isDetecting
    isDetectingRef,      \* isDetectingRef.current
    detections,          \* React state detections
    \* applyNMS taken alone (specification SpecNMS)
    nmsIn,        \* the detection list handed to applyNMS
    nmsOut,       \* applyNMS(nmsIn)
    nmsAgain,     \* applyNMS(nmsOut)
    nmsPc,        \* "input" -> "once" -> "twice"
    \* postprocessOutput taken alone (specification SpecDecode)
    decIn,        \* the output tensor handed to postprocessOutput
    decAnchors,   \* what the loop read and computed, anchor by anchor
    decCandidates,\* the detections pushed before applyNMS
    decOut,       \* the detections returned
    decPc,        \* "input" -> "decoded"
    \* calculateIoU taken alone (specification SpecIoU)
    iouA, iouB,   \* two boxes
    iouAB,        \* calculateIoU(iouA, iouB)
    iouBA,        \* calculateIoU(iouB, iouA)
    iouPc,        \* "input" -> "once" -> "both"
    \* preprocessImage taken alone (specification SpecPreprocess)
    preCanvas,    \* the source canvas
    preTensor,    \* the data of the tensor returned
    prePc         \* "input" -> "done"

nvars == <<nmsIn, nmsOut, nmsAgain, nmsPc>>
dvars == <<decIn, decAnchors, decCandidates, decOut, decPc>>
ivars == <<iouA, iouB, iouAB, iouBA, iouPc>>
lvars == <<preCanvas, preTensor, prePc>>
pvars == <<dvars, ivars, lvars>>
service == <<session, modelLoaded, hasLoggedModelInfo, mismatchWarnings>>
hook == <<enabled, options, isModelLoaded, error, isDetecting, isDetectingRef,
          detections>>
vars == <<service, calls, last, timers, hook, nvars, pvars>>

\* ------------------------------------------------------------------------
\* Bounds of the model
\* ------------------------------------------------------------------------
MaxLen == 3        \* longest detection list given to applyNMS
MaxCalls == 2      \* detectObjects calls in one behaviour
MaxChains == 2     \* detectLoop timers pending at once
MaxAnchors == 2    \* anchors of an output tensor that are not all zero
MaxSide == 4       \* largest width and height of a source canvas
TargetSize == 4    \* the side of the model input in preprocessImage taken alone

\* ------------------------------------------------------------------------
\* Program constants
\* ------------------------------------------------------------------------
inputSize == 640
ConfidenceCut == 2500          \* "confidence > 0.25", in 1/10000
InferenceTimeoutMs == 100
LoopInitialDelayMs == 100
ScoreOne == 100                \* the float 1.0 as a tensor value (obj = 1.0)
BoxOne == 2 * inputSize        \* the float 1.0 as a bbox component
iouThresholdDefault == <<45, 100>>   \* 0.45

classNames == << "left_hand", "left_thumb", "saung_instrument",
                 "right_forefinger", "right_hand", "right_thumb" >>

Last(s) == s[Len(s)]
Front(s) == SubSeq(s, 1, Len(s) - 1)

Max(a, b) == IF a >= b THEN a ELSE b
Min(a, b) == IF a <= b THEN a ELSE b

\* Math.max(lo, Math.min(hi, v))
Clamp(v, lo, hi) == Max(lo, Min(hi, v))

\* ------------------------------------------------------------------------
\* calculateIoU
\* ------------------------------------------------------------------------
IoUOverFirstArea(bbox1, bbox2) ==
    LET xLeft == Max(bbox1[1], bbox2[1])
        yTop == Max(bbox1[2], bbox2[2])
        xRight == Min(bbox1[1] + bbox1[3], bbox2[1] + bbox2[3])
        yBottom == Min(bbox1[2] + bbox1[4], bbox2[2] + bbox2[4])
    IN  IF xRight < xLeft \/ yBottom < yTop
        THEN <<0, 1>>
        ELSE <<(xRight - xLeft) * (yBottom - yTop), bbox1[3] * bbox1[4]>>

\* The IoU as the fraction <<intersectionArea, unionArea>>; the early
\* "return 0" is <<0, 1>>.  unionArea = 0 (two empty boxes) is 0/0 = NaN.
calculateIoU(bbox1, bbox2) ==
    LET x1 == bbox1[1]  y1 == bbox1[2]  w1 == bbox1[3]  h1 == bbox1[4]
        x2 == bbox2[1]  y2 == bbox2[2]  w2 == bbox2[3]  h2 == bbox2[4]
        xLeft == Max(x1, x2)
        yTop == Max(y1, y2)
        xRight == Min(x1 + w1, x2 + w2)
        yBottom == Min(y1 + h1, y2 + h2)
        intersectionArea == (xRight - xLeft) * (yBottom - yTop)
        area1 == w1 * h1
        area2 == w2 * h2
        unionArea == area1 + area2 - intersectionArea
    IN  IF xRight < xLeft \/ yBottom < yTop
        THEN <<0, 1>>
        ELSE <<intersectionArea, unionArea>>

IsNaN(iou) == iou[2] = 0

\* "iou > iouThreshold" on fractions; a comparison with NaN is false.
IouExceeds(iou, thr) == ~IsNaN(iou) /\ iou[1] * thr[2] > thr[1] * iou[2]

\* ------------------------------------------------------------------------
\* applyNMS
\* ------------------------------------------------------------------------
\* detections.sort((a, b) => b.confidence - a.confidence): Array.prototype.sort
\* is stable, so equal confidences keep their input order.
RECURSIVE InsertByConfidence(_, _)
InsertByConfidence(sorted, d) ==
    IF sorted = <<>> THEN <<d>>
    ELSE IF Last(sorted).confidence >= d.confidence
         THEN Append(sorted, d)
         ELSE Append(InsertByConfidence(Front(sorted), d), Last(sorted))

InputOrder(dets) == dets

RECURSIVE SortByConfidence(_)
SortByConfidence(dets) ==
    IF dets = <<>> THEN <<>>
    ELSE InsertByConfidence(SortByConfidence(Front(dets)), Last(dets))

ClassOrderFirstOnly(dets) == IF dets = <<>> THEN <<>> ELSE <<Head(dets).class>>

\* The keys of detectionsByClass in insertion order (for ... in over
\* non-integer string keys): the classes by first appearance in the sorted list.
RECURSIVE ClassOrder(_)
ClassOrder(dets) ==
    IF dets = <<>> THEN <<>>
    ELSE LET rest == ClassOrder(Front(dets))
             c == Last(dets).class
         IN  IF \E k \in 1..Len(rest) : rest[k] = c THEN rest ELSE Append(rest, c)

\* detectionsByClass[className]
ClassDetections(dets, className) ==
    LET OfClass(d) == d.class = className IN SelectSeq(dets, OfClass)

SameClassIgnored(other, current) == TRUE

\* other.class === current.class
SameClass(other, current) == other.class = current.class

KeepAgainstLast(current, selected, iouThreshold) ==
    \/ selected = <<>>
    \/ ~ /\ SameClass(Last(selected), current)
         /\ IouExceeds(calculateIoU(current.bbox, Last(selected).bbox), iouThreshold)

\* The inner loop over selected: keep stays true unless a selected detection
\* of the same class overlaps current by more than the threshold.
Keep(current, selected, iouThreshold) ==
    ~ \E k \in 1..Len(selected) :
          /\ SameClass(selected[k], current)
          /\ IouExceeds(calculateIoU(current.bbox, selected[k].bbox), iouThreshold)

SelectedUnshift(selected, current) == <<current>> \o selected

\* selected.push(current)
SelectedPush(selected, current) == Append(selected, current)

\* for (let i = 0; i < classDetections.length; i++) { ... }
RECURSIVE ProcessClass(_, _, _)
ProcessClass(classDetections, selected, iouThreshold) ==
    IF classDetections = <<>> THEN selected
    ELSE LET current == Head(classDetections)
             next == IF Keep(current, selected, iouThreshold)
                     THEN SelectedPush(selected, current)
                     ELSE selected
         IN  ProcessClass(Tail(classDetections), next, iouThreshold)

\* for (const className in detectionsByClass) { ... }
RECURSIVE ProcessClasses(_, _, _, _)
ProcessClasses(order, sorted, selected, iouThreshold) ==
    IF order = <<>> THEN selected
    ELSE ProcessClasses(Tail(order), sorted,
             ProcessClass(ClassDetections(sorted, Head(order)), selected, iouThreshold),
             iouThreshold)

applyNMSWith(dets, iouThreshold) ==
    LET sorted == SortByConfidence(dets)
    IN  ProcessClasses(ClassOrder(sorted), sorted, <<>>, iouThreshold)

applyNMS(dets) == applyNMSWith(dets, iouThresholdDefault)

\* ------------------------------------------------------------------------
\* preprocessImage
\* ------------------------------------------------------------------------
\* A canvas is [width, height, image]; Pixel gives the <<R, G, B>> bytes of its
\* pixel (sx, sy).  A tensor value byte / 255.0 is modelled by the byte.
GrayByte == 128                \* fillStyle '#808080'

Pixel(canvas, sx, sy) ==
    CASE canvas.image = "black" -> <<0, 0, 0>>
      [] canvas.image = "white" -> <<255, 255, 255>>
      [] canvas.image = "red" -> <<255, 0, 0>>
      [] canvas.image = "ramp" -> <<16 * sx, 100 + 16 * sy, 250>>

\* Lines 148-162 in units of 1/(2 * width * height) of a pixel of the target,
\* in which drawWidth, drawHeight, offsetX and offsetY are integers.
Letterbox(canvas, size) ==
    LET W == canvas.width
        H == canvas.height
        unit == 2 * W * H
    IN  IF W > H      \* aspectRatio > 1
        THEN [unit |-> unit, drawWidth |-> size * unit, drawHeight |-> 2 * size * H * H,
              offsetX |-> 0, offsetY |-> size * (W - H) * H]
        ELSE [unit |-> unit, drawWidth |-> 2 * size * W * W, drawHeight |-> size * unit,
              offsetX |-> size * (H - W) * W, offsetY |-> 0]

\* How much of the target pixel (px, py) the drawn rectangle covers.
Coverage(box, px, py) ==
    LET left == px * box.unit      right == (px + 1) * box.unit
        top == py * box.unit       bottom == (py + 1) * box.unit
    IN  IF \/ right <= box.offsetX \/ left >= box.offsetX + box.drawWidth
           \/ bottom <= box.offsetY \/ top >= box.offsetY + box.drawHeight
        THEN "none"
        ELSE IF /\ left >= box.offsetX /\ right <= box.offsetX + box.drawWidth
                /\ top >= box.offsetY /\ bottom <= box.offsetY + box.drawHeight
             THEN "full"
             ELSE "edge"

\* The source pixel drawn at the centre of the target pixel (px, py), without
\* smoothing: the nearest one.
SourcePixel(canvas, box, px, py) ==
    LET W == canvas.width
        H == canvas.height
        sx == (((2 * px + 1) * W * H - box.offsetX) * W) \div box.drawWidth
        sy == (((2 * py + 1) * W * H - box.offsetY) * H) \div box.drawHeight
    IN  Pixel(canvas, Clamp(sx, 0, W - 1), Clamp(sy, 0, H - 1))

\* What a rasterizer may leave in a pixel that the rectangle covers in part.
EdgeModes == {"drawn", "blended", "background"}

\* Lines 165-169: fillRect with gray, then drawImage.
DrawnPixel(canvas, size, edge, px, py) ==
    LET box == Letterbox(canvas, size)
        cover == Coverage(box, px, py)
        src == SourcePixel(canvas, box, px, py)
    IN  IF cover = "none" \/ (cover = "edge" /\ edge = "background")
        THEN <<GrayByte, GrayByte, GrayByte>>
        ELSE IF cover = "edge" /\ edge = "blended"
             THEN [c \in 1..3 |-> (src[c] + GrayByte) \div 2]
             ELSE src

\* getImageData: R, G, B, A of the pixels in row order.
ImageData(canvas, size, edge) ==
    [k \in 1..(4 * size * size) |->
        LET pixelIndex == (k - 1) \div 4
            c == (k - 1) % 4
        IN  IF c = 3 THEN 255
            ELSE DrawnPixel(canvas, size, edge, pixelIndex % size,
                            pixelIndex \div size)[c + 1]]

InterleavedIndex(c, pixelIndex, size) == 3 * pixelIndex + c

\* input[pixelIndex + c * inputSize * inputSize]
PlanarIndex(c, pixelIndex, size) == pixelIndex + c * size * size

\* Lines 173-182, the data of the tensor returned: the element at the planar
\* index of channel c of a pixel is resizedData[4 * pixelIndex + c] / 255.0.
preprocessImage(canvas, size, edge) ==
    LET resizedData == ImageData(canvas, size, edge)
        Source(k) == CHOOSE q \in (0..(size * size - 1)) \X (0..2) :
                         PlanarIndex(q[2], q[1], size) = k
    IN  [k \in 1..(3 * size * size) |->
            IF \E q \in (0..(size * size - 1)) \X (0..2) :
                   PlanarIndex(q[2], q[1], size) = k - 1
            THEN resizedData[4 * Source(k - 1)[1] + Source(k - 1)[2] + 1]
            ELSE 0]

\* ------------------------------------------------------------------------
\* postprocessOutput
\* ------------------------------------------------------------------------
\* An output tensor is [dims |-> <<dim1, dim2, dim3>>, data |-> flat sequence].
\* data is 0-based in the source: outputData[k] is data[k + 1], and a read
\* past the end yields undefined.
InRange(outputData, k) == k >= 0 /\ k < Len(outputData)
At(outputData, k) == outputData[k + 1]

\* Lines 206-224: the layout from the shape alone.
ResolveLayout(dims) ==
    IF dims[3] > dims[2]
    THEN [numVectors |-> dims[2], numAnchors |-> dims[3], isChannelFirst |-> TRUE]
    ELSE [numVectors |-> dims[3], numAnchors |-> dims[2], isChannelFirst |-> FALSE]

\* numVectors !== 4 + classNames.length && numVectors !== 5 + classNames.length
ChannelMismatch(dims) ==
    LET numVectors == ResolveLayout(dims).numVectors
    IN  numVectors # 4 + Len(classNames) /\ numVectors # 5 + Len(classNames)

hasObjectness(dims) == ResolveLayout(dims).numVectors = 5 + Len(classNames)

AttrIndexAnchorFirst(layout, a, i) == i * layout.numVectors + a

\* Flat index of attribute a of anchor i.
AttrIndex(layout, a, i) ==
    IF layout.isChannelFirst THEN a * layout.numAnchors + i
    ELSE i * layout.numVectors + a

ClassesStartAtFour(dims) == 4

classesStartOffset(dims) == IF hasObjectness(dims) THEN 5 ELSE 4

\* The loop over c: <<maxClassScore, classIndex>> after the slots 0..c-1,
\* starting from <<-1, -1>>; an undefined score never compares greater.
RECURSIVE MaxClass(_, _, _)
MaxClass(output, i, c) ==
    IF c = 0 THEN <<-ScoreOne, -1>>
    ELSE LET prev == MaxClass(output, i, c - 1)
             k == AttrIndex(ResolveLayout(output.dims),
                            classesStartOffset(output.dims) + (c - 1), i)
         IN  IF InRange(output.data, k) /\ At(output.data, k) > prev[1]
             THEN <<At(output.data, k), c - 1>>
             ELSE prev

ClassLabelFallback(classIndex) == "class_" \o ToString(classIndex)

\* this.classNames[classIndex] || `class_${classIndex}`
ClassLabel(classIndex) ==
    IF classIndex >= 0 /\ classIndex < Len(classNames)
    THEN classNames[classIndex + 1]
    ELSE "class_" \o ToString(classIndex)

ConfidenceAtLeast(confidence) == confidence >= ConfidenceCut

\* confidence > 0.25
ConfidencePasses(confidence) == confidence > ConfidenceCut

\* outputData[k], with 0 standing for undefined (the flags of ReadAnchor tell).
Value(outputData, k) == IF InRange(outputData, k) THEN At(outputData, k) ELSE 0

\* Lines 246-293: what the loop body reads and computes for anchor i.
\* geometryRead and objRead are false when a read was past the end of the
\* data (undefined, and NaN in the arithmetic that follows).
ReadAnchor(output, i) ==
    LET layout == ResolveLayout(output.dims)
        data == output.data
        K(a) == AttrIndex(layout, a, i)
        obj == IF hasObjectness(output.dims) THEN Value(data, K(4)) ELSE ScoreOne
        best == MaxClass(output, i, Len(classNames))
    IN  [geometryRead |-> \A a \in 0..3 : InRange(data, K(a)),
         objRead |-> ~hasObjectness(output.dims) \/ InRange(data, K(4)),
         cx |-> Value(data, K(0)), cy |-> Value(data, K(1)),
         w |-> Value(data, K(2)), h |-> Value(data, K(3)),
         obj |-> obj,
         maxClassScore |-> best[1], classIndex |-> best[2],
         confidence |-> obj * best[1]]

\* Lines 298-301: <<x, y, width, height>> of a reading, in 1/(2*inputSize).
NormalizeBox(r) ==
    << Clamp((2 * r.cx - r.w) \div ScoreOne, 0, BoxOne),
       Clamp((2 * r.cy - r.h) \div ScoreOne, 0, BoxOne),
       Clamp((2 * r.w) \div ScoreOne, 0, BoxOne),
       Clamp((2 * r.h) \div ScoreOne, 0, BoxOne) >>

\* confidence > 0.05, the threshold MainStage takes for the internal one
PassesLowerThreshold(r) == r.objRead /\ r.confidence > ConfidenceCut \div 5

\* Line 295, with a NaN confidence failing the comparison.
PassesThreshold(r) == r.objRead /\ ConfidencePasses(r.confidence)

BoundsUnchecked(r) == r.geometryRead

\* Line 304, with a NaN component failing the comparison.
WithinBounds(r) ==
    LET b == NormalizeBox(r)
    IN  /\ r.geometryRead
        /\ b[1] >= 0 /\ b[2] >= 0 /\ b[1] + b[3] <= BoxOne /\ b[2] + b[4] <= BoxOne

\* The body of the loop over anchors for anchor i: the detections it pushes
\* (none or one).
DecodeAnchor(output, i) ==
    LET r == ReadAnchor(output, i)
    IN  IF PassesThreshold(r) /\ WithinBounds(r)
        THEN << [class |-> ClassLabel(r.classIndex), confidence |-> r.confidence,
                 bbox |-> NormalizeBox(r)] >>
        ELSE <<>>

\* The candidates pushed by anchors 0..n-1, in anchor order.
RECURSIVE DecodeAnchors(_, _)
DecodeAnchors(output, n) ==
    IF n <= 0 THEN <<>>
    ELSE DecodeAnchors(output, n - 1) \o DecodeAnchor(output, n - 1)

\* The detections postprocessOutput returns (its logging is in the actions).
postprocessOutput(output) ==
    applyNMS(DecodeAnchors(output, ResolveLayout(output.dims).numAnchors))

\* ------------------------------------------------------------------------
\* The external inference capability: sessions and the tensors they return
\* ------------------------------------------------------------------------
RECURSIVE Flatten(_)
Flatten(rows) == IF rows = <<>> THEN <<>> ELSE Head(rows) \o Flatten(Tail(rows))

ZeroRow(n) == [k \in 1..n |-> 0]

\* rows padded with all-zero anchors up to n anchors
PadRows(rows, n) ==
    [k \in 1..n |-> IF k <= Len(rows) THEN rows[k] ELSE ZeroRow(Len(rows[1]))]

\* [1, anchors, vectors]: the attributes of an anchor are adjacent
AnchorFirstTensor(rows) ==
    [dims |-> <<1, Len(rows), Len(rows[1])>>, data |-> Flatten(rows)]

\* [1, vectors, anchors]: the values of an attribute are adjacent
ChannelFirstTensor(rows) ==
    LET numAnchors == Len(rows)
        numVectors == Len(rows[1])
    IN  [dims |-> <<1, numVectors, numAnchors>>,
         data |-> [k \in 1..(numVectors * numAnchors) |->
                      rows[((k - 1) % numAnchors) + 1][((k - 1) \div numAnchors) + 1]]]

\* Anchor rows <<cx, cy, w, h, (obj,) six class scores, ...>> in 1/100.
\* right_hand 0.95, a right_thumb 0.90 nested in it, an overlapping right_hand
\* 0.60 (IoU 0.7 with the first), and an anchor at exactly 0.25.
RowsV8 == << <<27200, 32000, 54400, 64000, 0, 0, 0, 0, 95, 0>>,
             <<19200, 19200, 12800, 12800, 0, 0, 0, 0, 0, 90>>,
             <<36800, 32000, 54400, 64000, 0, 0, 0, 0, 60, 0>>,
             <<19200, 19200, 12800, 12800, 25, 0, 0, 0, 0, 0>> >>
\* with objectness: confidences 0.9 * 1.0 and 0.5 * 0.5
RowsV5 == << <<27200, 32000, 54400, 64000, 90, 0, 0, 100, 0, 0, 0>>,
             <<19200, 19200, 12800, 12800, 50, 0, 0, 0, 0, 0, 50>> >>
\* twelve values per anchor: neither 4 + 6 nor 5 + 6
RowsWide == << <<27200, 32000, 54400, 64000, 0, 80, 0, 0, 0, 0, 0, 70>>,
               <<19200, 19200, 12800, 12800, 0, 0, 0, 0, 0, 0, 90, 0>> >>

TensorIds == {"v8", "v5", "wide", "blank"}

TensorOf(id) ==
    CASE id = "v8" -> ChannelFirstTensor(PadRows(RowsV8, 11))
      [] id = "v5" -> AnchorFirstTensor(PadRows(RowsV5, 11))
      [] id = "wide" -> AnchorFirstTensor(PadRows(RowsWide, 12))
      [] id = "blank" -> ChannelFirstTensor(PadRows(<<ZeroRow(10)>>, 11))

\* The tensors by id.
Tensors == [id \in TensorIds |-> TensorOf(id)]

\* What session.run can resolve with: a map from output names to tensors.
NoOutputs == [n \in {} |-> "blank"]
OutputMaps ==
    {[n \in {"output0"} |-> t] : t \in TensorIds} \cup
    { [n \in {"predictions"} |-> "v5"],
      [n \in {"output", "0"} |-> IF n = "output" THEN "v8" ELSE "blank"],
      [n \in {"other"} |-> "v8"],
      NoOutputs }

\* What InferenceSession.create can yield (lines 74-89).
GoodSessions == { [inputNames |-> <<"images">>, outputNames |-> <<"output0">>] }
SessionNoInputs == [inputNames |-> <<>>, outputNames |-> <<"output0">>]
SessionNoOutputs == [inputNames |-> <<"images">>, outputNames |-> <<>>]

\* ------------------------------------------------------------------------
\* ObjectDetectionService.loadModel, with the hook's effect that awaits it
\* ------------------------------------------------------------------------
\* How loadModel ends: "noModel" (no path could be fetched, line 60, or every
\* InferenceSession.create failed, line 89: thrown before this.session is
\* assigned), "noInputs" (line 109), "noOutputs" (line 112), "ok".
LoadOutcomes == {"noModel", "noInputs", "noOutputs", "ok"}

\* this.modelLoaded after loadModel ended with outcome
ModelLoadedAfter(outcome) == IF outcome = "ok" THEN TRUE ELSE modelLoaded

\* The session is assigned (line 74) before it is validated (lines 108-113).
SessionAfter(outcome, s) ==
    CASE outcome = "ok" -> <<s>>
      [] outcome = "noInputs" -> <<SessionNoInputs>>
      [] outcome = "noOutputs" -> <<SessionNoOutputs>>
      [] OTHER -> session

LoadErrorMessage(outcome) ==
    CASE outcome = "noModel" -> "Could not load model from any of the attempted paths"
      [] outcome = "noInputs" -> "Model has no inputs"
      [] outcome = "noOutputs" -> "Model has no outputs"
      [] OTHER -> ""

\* ------------------------------------------------------------------------
\* ObjectDetectionService.detectObjects
\* ------------------------------------------------------------------------
\* The media source as detectObjects finds it:
\*   "zeroSize"   width === 0 || height === 0                      (line 408)
\*   "notPlaying" a video with readyState < 2, paused, ended, seeking
\*                or loading                                    (lines 414-423)
\*   "noContext"  canvas.getContext returns null                (line 434)
\*   "frame"      a frame is drawn and inference is started
SourceStates == {"zeroSize", "notPlaying", "noContext", "frame"}

\* How a call ends: a returned list or a thrown error.
Returned(list) == [phase |-> "returned", result |-> list, error |-> ""]
Threw(message) == [phase |-> "threw", result |-> <<>>, error |-> message]
Racing == [phase |-> "racing", result |-> <<>>, error |-> ""]

InferenceTimeoutError == "Inference timeout"
NoOutputTensorError == "No valid output tensor found"
InferenceRuntimeError == "inference runtime error"

\* !this.modelLoaded || !this.session
ModelNotReady == ~modelLoaded \/ session = <<>>

NotReadyThrows == Threw("Model not loaded")

\* return [] of lines 400, 410, 417, 421
NotReadyOutcome == Returned(<<>>)

EntryOutcomeSizeUnchecked(src) ==
    IF ModelNotReady \/ src = "notPlaying" THEN NotReadyOutcome
    ELSE IF src = "noContext" THEN Threw("Could not get canvas context")
    ELSE Racing

\* The part of detectObjects before its await, for a source in state src.
EntryOutcome(src) ==
    IF ModelNotReady \/ src \in {"zeroSize", "notPlaying"} THEN NotReadyOutcome
    ELSE IF src = "noContext" THEN Threw("Could not get canvas context")
    ELSE Racing

\* The timeout promise rejects, the catch block logs and rethrows.
TimeoutOutcome == Threw(InferenceTimeoutError)

RuntimeErrorSwallowed(message) == Returned(<<>>)

\* session.run rejects, the catch block logs and rethrows the same error.
RuntimeErrorOutcome(message) == Threw(message)

\* this.session.outputNames[0]
FirstOutputName == IF session = <<>> \/ session[1].outputNames = <<>>
                   THEN "undefined" ELSE session[1].outputNames[1]

fallbackNames == <<"output0", "output", "predictions", "0">>

\* Lines 461-474: the tensor id under the model's output name, else under the
\* first fallback name present, else "none".
FindOutputTensor(outputs) ==
    IF FirstOutputName \in DOMAIN outputs THEN outputs[FirstOutputName]
    ELSE IF \E k \in 1..Len(fallbackNames) : fallbackNames[k] \in DOMAIN outputs
         THEN outputs[fallbackNames[CHOOSE k \in 1..Len(fallbackNames) :
                   /\ fallbackNames[k] \in DOMAIN outputs
                   /\ \A j \in 1..(k - 1) : fallbackNames[j] \notin DOMAIN outputs]]
         ELSE "none"

MissingTensorReturnsEmpty == Returned(<<>>)

\* throw new Error(`No valid output tensor found. ...`)
MissingTensorOutcome == Threw(NoOutputTensorError)

\* postprocessOutput on each tensor session.run can return.
Postprocessed == [id \in TensorIds |-> postprocessOutput(Tensors[id])]

OutputsOutcomeOnceLogged(outputs) ==
    IF FindOutputTensor(outputs) = "none" THEN MissingTensorOutcome
    ELSE IF hasLoggedModelInfo THEN Returned(Postprocessed[FindOutputTensor(outputs)])
    ELSE Returned(<<>>)

\* Lines 460-485: session.run has resolved with outputs.
OutputsOutcome(outputs) ==
    IF FindOutputTensor(outputs) = "none" THEN MissingTensorOutcome
    ELSE Returned(Postprocessed[FindOutputTensor(outputs)])

\* Lines 227-236: the warning is inside the log-once block.
WarnsNow(dims) == ~hasLoggedModelInfo /\ ChannelMismatch(dims)

NoTimers(id) == <<>>

\* setTimeout(() => reject(new Error('Inference timeout')), 100)
TimeoutTimer(id) == << [kind |-> "timeout", call |-> id, remaining |-> InferenceTimeoutMs] >>

\* ------------------------------------------------------------------------
\* useObjectDetection
\* ------------------------------------------------------------------------
\* The hook defaults (lines 376-377) and the options MainStage passes.
DefaultOptions == [detectionInterval |-> 100, confidenceThreshold |-> 2500]
MainStageOptions == [detectionInterval |-> 50, confidenceThreshold |-> 500]
HookOptions == {DefaultOptions, MainStageOptions}
\* A caller that asks for a stricter filter than the decoder's 0.25.
StrictOptions == [detectionInterval |-> 100, confidenceThreshold |-> 9200]

\* results.filter(detection => detection.confidence >= confidenceThreshold)
FilterByThreshold(results) ==
    LET Passes(d) == d.confidence >= options.confidenceThreshold
    IN  SelectSeq(results, Passes)

\* What the awaiting caller does with the way the call ended: the hook
\* surfaces a returned list and swallows an error.
DetectionsAfter(caller, outcome) ==
    IF caller \in {"loop", "image", "once"} /\ outcome.phase = "returned"
    THEN FilterByThreshold(outcome.result)
    ELSE detections

\* The record of a settled call: which call it was (calls are numbered in the
\* order they are made), how it was made and how it ended.
\*   settledBy: "entry" (before the await), "inference", "inferenceError",
\*              "timeout"; tensor: the tensor decoded, or "none";
\*   warned: whether the call logged the mismatch warning;
\*   outputs, outputName: what session.run resolved with and
\*              session.outputNames[0] at that time.
SettledCall(id, caller, src, notReady, outcome, by, tensor, warned, outputs) ==
    outcome @@ [id |-> id, caller |-> caller, src |-> src, notReady |-> notReady,
                settledBy |-> by, tensor |-> tensor, warned |-> warned,
                outputs |-> outputs, outputName |-> FirstOutputName]

NoCall == SettledCall(0, "none", "none", FALSE, Returned(<<>>), "none", "none", FALSE,
                      NoOutputs)

\* detectObjects(src) is called by caller: the call is recorded with the
\* source it saw and with infer "pending" when it reached session.run (line
\* 453), "none" when it returned or threw before preprocessImage; its timeout
\* timer is created after the timers of before, and the timers of after follow.
CallDetectObjects(caller, src, before, after) ==
    LET id == Len(calls) + 1
        outcome == EntryOutcome(src)
        racing == outcome.phase = "racing"
    IN  /\ Len(calls) < MaxCalls
        /\ calls' = Append(calls, [caller |-> IF racing THEN caller ELSE "none",
                                   src |-> src,
                                   racing |-> racing,
                                   infer |-> IF racing THEN "pending" ELSE "none"])
        /\ last' = IF racing THEN last
                   ELSE SettledCall(id, caller, src, ModelNotReady, outcome,
                                    "entry", "none", FALSE, NoOutputs)
        /\ timers' = before \o (IF racing THEN TimeoutTimer(id) ELSE <<>>) \o after
        /\ detections' = DetectionsAfter(caller, outcome)

\* The call id, which awaits the race, settles with outcome.
Settle(id, outcome, by, inferState, tensor, warned, outputs) ==
    /\ calls' = [calls EXCEPT ![id] = [caller |-> "none", src |-> calls[id].src,
                                        racing |-> FALSE, infer |-> inferState]]
    /\ last' = SettledCall(id, calls[id].caller, calls[id].src, FALSE, outcome, by,
                           tensor, warned, outputs)
    /\ detections' = DetectionsAfter(calls[id].caller, outcome)

\* ------------------------------------------------------------------------
\* Actions
\* ------------------------------------------------------------------------
\* The effect of lines 391-410: loadModel runs to its end with outcome; the
\* session and modelLoaded are assigned in its last synchronous stretch.
LoadModel(outcome, s) ==
    /\ enabled
    /\ session' = SessionAfter(outcome, s)
    /\ modelLoaded' = ModelLoadedAfter(outcome)
    /\ isModelLoaded' = IF outcome = "ok" THEN TRUE ELSE isModelLoaded
    /\ error' = LoadErrorMessage(outcome)
    /\ UNCHANGED <<hasLoggedModelInfo, mismatchWarnings, calls, last, timers, enabled,
                   options, isDetecting, isDetectingRef, detections, nvars, pvars>>

\* stopDetection (lines 535-545); intervalRef is never assigned.
StopDetection ==
    /\ isDetecting' = FALSE
    /\ isDetectingRef' = FALSE
    /\ detections' = <<>>
    /\ UNCHANGED <<service, calls, last, timers, enabled, options, isModelLoaded, error,
                   nvars, pvars>>

\* options.enabled changes: the cleanup of the start/stop effect (line 455)
\* and, when disabled, its body (line 418) call stopDetection.
SetEnabled(b) ==
    /\ b # enabled
    /\ enabled' = b
    /\ isDetecting' = FALSE
    /\ isDetectingRef' = FALSE
    /\ detections' = <<>>
    /\ UNCHANGED <<service, calls, last, timers, options, isModelLoaded, error, nvars, pvars>>

\* The detectLoop chains alive: one pending timer each.
Chains == Cardinality({k \in 1..Len(timers) : timers[k].kind = "loop"})

LoopTimer(delay) == << [kind |-> "loop", call |-> 0, remaining |-> delay] >>

\* startDetection with a visible video (lines 459-463, 512-527): the loop is
\* started by a timer.
StartDetectionVideo ==
    /\ enabled /\ isModelLoaded /\ ~isDetectingRef
    /\ Chains < MaxChains
    /\ isDetecting' = TRUE
    /\ isDetectingRef' = TRUE
    /\ timers' = timers \o LoopTimer(LoopInitialDelayMs)
    /\ UNCHANGED <<service, calls, last, enabled, options, isModelLoaded, error,
                   detections, nvars, pvars>>

\* startDetection without a visible video (lines 459-463, 528-531): detect()
\* runs once, at once, and reaches detectObjects(src).
StartDetectionImage(src) ==
    /\ enabled /\ isModelLoaded /\ ~isDetectingRef
    /\ isDetecting' = TRUE
    /\ isDetectingRef' = TRUE
    /\ modelLoaded
    /\ CallDetectObjects("image", src, timers, <<>>)
    /\ UNCHANGED <<service, enabled, options, isModelLoaded, error, nvars, pvars>>

\* The timers that have expired, and the one the event loop runs next: the
\* earliest created among them.
Expired == {k \in 1..Len(timers) : timers[k].remaining = 0}
NextTimer == CHOOSE k \in Expired : \A j \in Expired : k <= j
WithoutTimer(k) == SubSeq(timers, 1, k - 1) \o SubSeq(timers, k + 1, Len(timers))

\* Time passes up to the next expiry.
AdvanceTime ==
    /\ timers # <<>>
    /\ Expired = {}
    /\ LET step == CHOOSE d \in {timers[k].remaining : k \in 1..Len(timers)} :
                       \A k \in 1..Len(timers) : d <= timers[k].remaining
       IN  timers' = [k \in 1..Len(timers) |->
                         [timers[k] EXCEPT !.remaining = @ - step]]
    /\ UNCHANGED <<service, calls, last, hook, nvars, pvars>>

\* detectLoop (lines 514-524) with detect() reaching detectObjects(src); the
\* next detectLoop is scheduled whether or not the call has settled.
DetectLoopDetects(src) ==
    /\ Expired # {}
    /\ timers[NextTimer].kind = "loop"
    /\ isDetectingRef
    /\ modelLoaded
    /\ CallDetectObjects("loop", src, WithoutTimer(NextTimer),
                         LoopTimer(options.detectionInterval))
    /\ UNCHANGED <<service, enabled, options, isModelLoaded, error, isDetecting,
                   isDetectingRef, nvars, pvars>>

\* detectLoop with detect() returning before detectObjects: no media source,
\* the model not loaded, or a video that is not ready, paused or seeking
\* (lines 479-492).
DetectLoopSkips ==
    /\ Expired # {}
    /\ timers[NextTimer].kind = "loop"
    /\ isDetectingRef
    /\ timers' = WithoutTimer(NextTimer) \o LoopTimer(options.detectionInterval)
    /\ UNCHANGED <<service, calls, last, hook, nvars, pvars>>

\* detectLoop after stopDetection: it returns and the chain ends (line 515).
DetectLoopEnds ==
    /\ Expired # {}
    /\ timers[NextTimer].kind = "loop"
    /\ ~isDetectingRef
    /\ timers' = WithoutTimer(NextTimer)
    /\ UNCHANGED <<service, calls, last, hook, nvars, pvars>>

\* detectOnce (lines 548-574) reaching detectObjects(src).
DetectOnce(src) ==
    /\ isModelLoaded
    /\ CallDetectObjects("once", src, timers, <<>>)
    /\ UNCHANGED <<service, enabled, options, isModelLoaded, error, isDetecting,
                   isDetectingRef, nvars, pvars>>

\* detectObjects called on the exported singleton by any other client.
DirectDetect(src) ==
    /\ CallDetectObjects("direct", src, timers, <<>>)
    /\ UNCHANGED <<service, enabled, options, isModelLoaded, error, isDetecting,
                   isDetectingRef, nvars, pvars>>

\* The timeout of call id expires while the call awaits the race.
TimeoutFires ==
    /\ Expired # {}
    /\ timers[NextTimer].kind = "timeout"
    /\ calls[timers[NextTimer].call].racing
    /\ Settle(timers[NextTimer].call, TimeoutOutcome, "timeout", "pending", "none",
              FALSE, NoOutputs)
    /\ timers' = WithoutTimer(NextTimer)
    /\ UNCHANGED <<service, enabled, options, isModelLoaded, error, isDetecting,
                   isDetectingRef, nvars, pvars>>

\* The timer is never cleared: it also expires after the race has settled,
\* and then rejects a promise nobody awaits.
TimeoutFiresLate ==
    /\ Expired # {}
    /\ timers[NextTimer].kind = "timeout"
    /\ ~calls[timers[NextTimer].call].racing
    /\ timers' = WithoutTimer(NextTimer)
    /\ UNCHANGED <<service, calls, last, hook, nvars, pvars>>

AwaitedOrPending(id) == calls[id].infer = "pending"

\* Call id still awaits Promise.race (line 458): neither promise has settled.
Awaited(id) == calls[id].racing

\* session.run of call id resolves with outputs while the call awaits it.
InferenceResolves(id, outputs) ==
    /\ id \in 1..Len(calls)
    /\ Awaited(id)
    /\ LET t == FindOutputTensor(outputs)
           decoded == t # "none"
           warns == decoded /\ WarnsNow(Tensors[t].dims)
       IN  /\ Settle(id, OutputsOutcome(outputs), "inference", "settled", t, warns, outputs)
           /\ hasLoggedModelInfo' = (hasLoggedModelInfo \/ decoded)
           /\ mismatchWarnings' = mismatchWarnings + (IF warns THEN 1 ELSE 0)
    /\ UNCHANGED <<session, modelLoaded, timers, enabled, options,
                   isModelLoaded, error, isDetecting, isDetectingRef, nvars, pvars>>

\* session.run of call id rejects while the call awaits it.
InferenceRejects(id) ==
    /\ id \in 1..Len(calls)
    /\ Awaited(id)
    /\ Settle(id, RuntimeErrorOutcome(InferenceRuntimeError), "inferenceError",
              "settled", "none", FALSE, NoOutputs)
    /\ UNCHANGED <<service, timers, enabled, options, isModelLoaded, error,
                   isDetecting, isDetectingRef, nvars, pvars>>

\* session.run of call id settles after the timeout won the race: nothing
\* awaits it any more.
InferenceSettlesLate(id) ==
    /\ id \in 1..Len(calls)
    /\ ~calls[id].racing
    /\ calls[id].infer = "pending"
    /\ calls' = [calls EXCEPT ![id].infer = "settled"]
    /\ UNCHANGED <<service, last, timers, hook, nvars, pvars>>

InitNMSIdle ==
    /\ nmsIn = <<>>
    /\ nmsOut = <<>>
    /\ nmsAgain = <<>>
    /\ nmsPc = "idle"

InitDecodeIdle ==
    /\ decIn = <<>>
    /\ decAnchors = <<>>
    /\ decCandidates = <<>>
    /\ decOut = <<>>
    /\ decPc = "idle"

InitIoUIdle ==
    /\ iouA = <<>>
    /\ iouB = <<>>
    /\ iouAB = <<>>
    /\ iouBA = <<>>
    /\ iouPc = "idle"

InitPreprocessIdle ==
    /\ preCanvas = <<>>
    /\ preTensor = <<>>
    /\ prePc = "idle"

InitService ==
    /\ session = <<>>
    /\ modelLoaded = FALSE
    /\ hasLoggedModelInfo = FALSE
    /\ mismatchWarnings = 0
    /\ calls = <<>>
    /\ last = NoCall
    /\ timers = <<>>

InitHook ==
    /\ enabled = TRUE
    /\ options = DefaultOptions
    /\ isModelLoaded = FALSE
    /\ error = ""
    /\ isDetecting = FALSE
    /\ isDetectingRef = FALSE
    /\ detections = <<>>

\* ------------------------------------------------------------------------
\* Specification Spec: the service, used through its public methods
\* ------------------------------------------------------------------------
Init ==
    InitService /\ InitHook /\ InitNMSIdle /\ InitDecodeIdle /\ InitIoUIdle
        /\ InitPreprocessIdle

Next ==
    \/ \E outcome \in LoadOutcomes, s \in GoodSessions : LoadModel(outcome, s)
    \/ \E src \in SourceStates : DirectDetect(src)
    \/ AdvanceTime
    \/ TimeoutFires
    \/ TimeoutFiresLate
    \/ \E id \in 1..MaxCalls, outputs \in OutputMaps : InferenceResolves(id, outputs)
    \/ \E id \in 1..MaxCalls : InferenceRejects(id)
    \/ \E id \in 1..MaxCalls : InferenceSettlesLate(id)

Spec == Init /\ [][Next]_vars

\* The event loop runs every timer that has expired, and time passes.
FairSpec ==
    Spec /\ WF_vars(AdvanceTime) /\ WF_vars(TimeoutFires) /\ WF_vars(TimeoutFiresLate)

\* ------------------------------------------------------------------------
\* Specification SpecHook: useObjectDetection once its effect has loaded the
\* model (loadModel ended "ok": lines 400-401)
\* ------------------------------------------------------------------------
InitLoaded ==
    /\ session \in {<<s>> : s \in GoodSessions}
    /\ modelLoaded = TRUE
    /\ hasLoggedModelInfo = FALSE
    /\ mismatchWarnings = 0
    /\ calls = <<>>
    /\ last = NoCall
    /\ timers = <<>>
    /\ enabled = TRUE
    /\ options \in HookOptions
    /\ isModelLoaded = TRUE
    /\ error = ""
    /\ isDetecting = FALSE
    /\ isDetectingRef = FALSE
    /\ detections = <<>>
    /\ InitNMSIdle /\ InitDecodeIdle /\ InitIoUIdle /\ InitPreprocessIdle

NextHook ==
    \/ StopDetection
    \/ \E b \in BOOLEAN : SetEnabled(b)
    \/ StartDetectionVideo
    \/ \E src \in SourceStates : StartDetectionImage(src)
    \/ AdvanceTime
    \/ \E src \in SourceStates : DetectLoopDetects(src)
    \/ DetectLoopSkips
    \/ DetectLoopEnds
    \/ \E src \in SourceStates : DetectOnce(src)
    \/ TimeoutFires
    \/ TimeoutFiresLate
    \/ \E id \in 1..MaxCalls, outputs \in OutputMaps : InferenceResolves(id, outputs)
    \/ \E id \in 1..MaxCalls : InferenceRejects(id)
    \/ \E id \in 1..MaxCalls : InferenceSettlesLate(id)

SpecHook == InitLoaded /\ [][NextHook]_vars

\* ------------------------------------------------------------------------
\* Specification SpecHookImage: useObjectDetection without a visible video
\* (lines 528-531: detect() runs once per startDetection, no detectLoop), with
\* the options of the source and a stricter confidenceThreshold
\* ------------------------------------------------------------------------
InitImage ==
    /\ session \in {<<s>> : s \in GoodSessions}
    /\ modelLoaded = TRUE
    /\ hasLoggedModelInfo = FALSE
    /\ mismatchWarnings = 0
    /\ calls = <<>>
    /\ last = NoCall
    /\ timers = <<>>
    /\ enabled = TRUE
    /\ options \in HookOptions \cup {StrictOptions}
    /\ isModelLoaded = TRUE
    /\ error = ""
    /\ isDetecting = FALSE
    /\ isDetectingRef = FALSE
    /\ detections = <<>>
    /\ InitNMSIdle /\ InitDecodeIdle /\ InitIoUIdle /\ InitPreprocessIdle

NextImage ==
    \/ StopDetection
    \/ \E b \in BOOLEAN : SetEnabled(b)
    \/ \E src \in SourceStates : StartDetectionImage(src)
    \/ AdvanceTime
    \/ \E src \in SourceStates : DetectOnce(src)
    \/ TimeoutFires
    \/ TimeoutFiresLate
    \/ \E id \in 1..MaxCalls, outputs \in OutputMaps : InferenceResolves(id, outputs)
    \/ \E id \in 1..MaxCalls : InferenceRejects(id)
    \/ \E id \in 1..MaxCalls : InferenceSettlesLate(id)

SpecHookImage == InitImage /\ [][NextImage]_vars

\* ------------------------------------------------------------------------
\* Specification SpecNMS: applyNMS on every detection list of a bounded set
\* ------------------------------------------------------------------------
\* Boxes as postprocessOutput emits them (x + width <= 1, y + height <= 1),
\* in units of 1/1280.  With a = NmsBoxes[1], b = [2], c = [3]:
\*   IoU(a, b) = 14/20 = 0.7, IoU(b, c) = 12/17, IoU(a, c) = 9/20 = 0.45
\*   (not above the threshold); [4] lies inside a and b; [5] is empty.
NmsBoxes == << <<0, 0, 1088, 1280>>, <<192, 0, 1088, 1280>>, <<512, 0, 768, 1280>>,
               <<256, 256, 256, 256>>, <<0, 0, 0, 0>> >>
NmsClasses == {"right_hand", "right_thumb"}

\* The candidates: confidences above 0.25, as the decoder keeps them.
NmsDetections ==
    [class : {"right_hand"}, confidence : {6000, 9000, 9500},
     bbox : {NmsBoxes[1], NmsBoxes[2], NmsBoxes[3], NmsBoxes[5]}] \cup
    [class : {"right_thumb"}, confidence : {6000, 9000},
     bbox : {NmsBoxes[2], NmsBoxes[4], NmsBoxes[5]}]

NmsInputs == UNION {[1..n -> NmsDetections] : n \in 0..MaxLen}

InitNMS ==
    /\ InitService
    /\ InitHook
    /\ nmsIn \in NmsInputs
    /\ nmsOut = <<>>
    /\ nmsAgain = <<>>
    /\ nmsPc = "input"
    /\ InitDecodeIdle /\ InitIoUIdle /\ InitPreprocessIdle

RunNMS ==
    /\ nmsPc = "input"
    /\ nmsOut' = applyNMS(nmsIn)
    /\ nmsPc' = "once"
    /\ UNCHANGED <<nmsIn, nmsAgain, service, calls, last, timers, hook, pvars>>

RunNMSAgain ==
    /\ nmsPc = "once"
    /\ nmsAgain' = applyNMS(nmsOut)
    /\ nmsPc' = "twice"
    /\ UNCHANGED <<nmsIn, nmsOut, service, calls, last, timers, hook, pvars>>

NextNMS == RunNMS \/ RunNMSAgain

SpecNMS == InitNMS /\ [][NextNMS]_vars

\* ------------------------------------------------------------------------
\* Specification SpecDecode: postprocessOutput on every tensor of a bounded
\* family
\* ------------------------------------------------------------------------
\* What a model says of one anchor: <<cx, cy, w, h>>, the objectness and the
\* six class scores, all in 1/100 (whole pixels, probabilities).
Anchor(geometry, obj, scores) == [geometry |-> geometry, obj |-> obj, scores |-> scores]

ModelAnchors ==
    { \* a right_hand at 0.95 whose box ends at y + height = 1
      Anchor(<<27200, 32000, 54400, 64000>>, 100, <<0, 0, 0, 0, 95, 0>>),
      \* a right_thumb at 0.9 * 0.9
      Anchor(<<19200, 19200, 12800, 12800>>, 90, <<0, 0, 0, 0, 0, 90>>),
      \* a right_hand at 0.6 that overlaps the first by IoU 0.7
      Anchor(<<36800, 32000, 54400, 64000>>, 100, <<0, 0, 0, 0, 60, 0>>),
      \* a score of exactly 0.25
      Anchor(<<19200, 19200, 12800, 12800>>, 100, <<25, 0, 0, 0, 0, 0>>),
      \* 0.5 * 0.5: exactly 0.25 with objectness, 0.5 without
      Anchor(<<19200, 19200, 12800, 12800>>, 50, <<0, 50, 0, 0, 0, 0>>),
      \* x + width > 1
      Anchor(<<60000, 32000, 20000, 10000>>, 100, <<0, 0, 80, 0, 0, 0>>),
      \* a negative width, and two classes with the same score
      Anchor(<<10000, 10000, -5000, 6000>>, 100, <<0, 80, 0, 80, 0, 0>>),
      \* a centre left of the image
      Anchor(<<-10000, 32000, 10000, 10000>>, 100, <<0, 0, 0, 70, 0, 0>>),
      \* y + height > 1
      Anchor(<<32000, 60000, 10000, 20000>>, 100, <<0, 0, 0, 70, 0, 0>>),
      \* a box larger than the image
      Anchor(<<32000, 32000, 140000, 140000>>, 100, <<30, 0, 0, 0, 0, 99>>),
      \* an empty box in the corner x = 1, y = 1
      Anchor(<<64000, 64000, 0, 0>>, 100, <<0, 0, 40, 0, 0, 0>>),
      Anchor(<<0, 0, 0, 0>>, 0, <<0, 0, 0, 0, 0, 0>>) }

\* How a model lays its output out:
\*   "v8cf"   [1, 10, 11]  channel-first, 4 + 6 values per anchor
\*   "v8af"   [1, 10, 10]  anchor-first, as many anchors as values
\*   "v5cf"   [1, 11, 12]  channel-first, 5 + 6 values per anchor
\*   "v5af"   [1, 11, 11]  anchor-first, as many anchors as values
\*   "narrow" [1, 9, 9]    anchor-first, a model of five classes
\*   "wide"   [1, 12, 12]  anchor-first, two more values per anchor
\*   "few"    [1, MaxAnchors, 10]  anchor-first, fewer anchors than values
ModelShapes == {"v8cf", "v8af", "v5cf", "v5af", "narrow", "wide", "few"}

\* The values of an anchor as the model of that shape writes them.
AnchorRow(shape, a) ==
    CASE shape \in {"v5cf", "v5af"} -> a.geometry \o <<a.obj>> \o a.scores
      [] shape = "narrow" -> a.geometry \o SubSeq(a.scores, 1, 5)
      [] shape = "wide" -> a.geometry \o a.scores \o <<0, 0>>
      [] OTHER -> a.geometry \o a.scores

ModelTensor(shape, anchors) ==
    LET rows == [k \in 1..Len(anchors) |-> AnchorRow(shape, anchors[k])]
    IN  CASE shape = "v8cf" -> ChannelFirstTensor(PadRows(rows, 11))
          [] shape = "v8af" -> AnchorFirstTensor(PadRows(rows, 10))
          [] shape = "v5cf" -> ChannelFirstTensor(PadRows(rows, 12))
          [] shape = "v5af" -> AnchorFirstTensor(PadRows(rows, 11))
          [] shape = "narrow" -> AnchorFirstTensor(PadRows(rows, 9))
          [] shape = "wide" -> AnchorFirstTensor(PadRows(rows, 12))
          [] shape = "few" -> AnchorFirstTensor(rows)

DecodeInputs ==
    { ModelTensor(shape, anchors) :
          shape \in ModelShapes, anchors \in [1..MaxAnchors -> ModelAnchors] }

InitDecode ==
    /\ InitService
    /\ InitHook
    /\ InitNMSIdle /\ InitIoUIdle /\ InitPreprocessIdle
    /\ decIn \in DecodeInputs
    /\ decAnchors = <<>>
    /\ decCandidates = <<>>
    /\ decOut = <<>>
    /\ decPc = "input"

\* postprocessOutput(decIn): the readings of every anchor are kept with the
\* box computed from them, whether the anchor passed the threshold (line 295)
\* and whether it was pushed (line 305).
Decode ==
    /\ decPc = "input"
    /\ decAnchors' =
           [k \in 1..ResolveLayout(decIn.dims).numAnchors |->
               LET r == ReadAnchor(decIn, k - 1)
               IN  [reading |-> r,
                    box |-> NormalizeBox(r),
                    passed |-> PassesThreshold(r),
                    pushed |-> DecodeAnchor(decIn, k - 1)]]
    /\ decCandidates' = DecodeAnchors(decIn, ResolveLayout(decIn.dims).numAnchors)
    /\ decOut' = postprocessOutput(decIn)
    /\ decPc' = "decoded"
    /\ UNCHANGED <<decIn, service, calls, last, timers, hook, nvars, ivars, lvars>>

NextDecode == Decode

SpecDecode == InitDecode /\ [][NextDecode]_vars

\* ------------------------------------------------------------------------
\* Specification SpecIoU: calculateIoU on every pair of boxes of a grid
\* ------------------------------------------------------------------------
\* Boxes <<x, y, width, height>> in 1/1280, empty ones among them.
IoUBoxes == {0, 320, 960} \X {0, 320, 960} \X {0, 320, 640} \X {0, 320, 640}

InitIoU ==
    /\ InitService
    /\ InitHook
    /\ InitNMSIdle /\ InitDecodeIdle /\ InitPreprocessIdle
    /\ iouA \in IoUBoxes
    /\ iouB \in IoUBoxes
    /\ iouAB = <<>>
    /\ iouBA = <<>>
    /\ iouPc = "input"

CalculateIoU ==
    /\ iouPc = "input"
    /\ iouAB' = calculateIoU(iouA, iouB)
    /\ iouPc' = "once"
    /\ UNCHANGED <<iouA, iouB, iouBA, service, calls, last, timers, hook, nvars,
                   dvars, lvars>>

CalculateIoUSwapped ==
    /\ iouPc = "once"
    /\ iouBA' = calculateIoU(iouB, iouA)
    /\ iouPc' = "both"
    /\ UNCHANGED <<iouA, iouB, iouAB, service, calls, last, timers, hook, nvars,
                   dvars, lvars>>

NextIoU == CalculateIoU \/ CalculateIoUSwapped

SpecIoU == InitIoU /\ [][NextIoU]_vars

\* ------------------------------------------------------------------------
\* Specification SpecPreprocess: preprocessImage on every canvas of a
\* bounded family
\* ------------------------------------------------------------------------
Canvases ==
    [width : 1..MaxSide, height : 1..MaxSide, image : {"black", "white", "red", "ramp"}]

InitPreprocess ==
    /\ InitService
    /\ InitHook
    /\ InitNMSIdle /\ InitDecodeIdle /\ InitIoUIdle
    /\ preCanvas \in Canvases
    /\ preTensor = <<>>
    /\ prePc = "input"

PreprocessImage(edge) ==
    /\ prePc = "input"
    /\ preTensor' = preprocessImage(preCanvas, TargetSize, edge)
    /\ prePc' = "done"
    /\ UNCHANGED <<preCanvas, service, calls, last, timers, hook, nvars, dvars, ivars>>

NextPreprocess == \E edge \in EdgeModes : PreprocessImage(edge)

SpecPreprocess == InitPreprocess /\ [][NextPreprocess]_vars

\* ------------------------------------------------------------------------
\* Properties of the detection loop and of detectObjects
\* ------------------------------------------------------------------------
\* The calls of detectObjects made by detectLoop that still await inference.
LoopCallsInFlight ==
    {id \in 1..Len(calls) : calls[id].racing /\ calls[id].caller = "loop"}

\* C1: in the video detection loop at most one call of detectObjects is in
\* flight at any time: no cycle starts while the inference of the previous
\* cycle has not settled.
C1_OneLoopCallInFlight == Cardinality(LoopCallsInFlight) <= 1

\* C2: when inference does not settle within the timeout, detectObjects yields
\* an empty detection list and raises no error.
C2_TimeoutYieldsEmptyList ==
    last.settledBy = "timeout" => (last.phase = "returned" /\ last.result = <<>>)

\* C3: every call of detectObjects eventually settles, even if inference never
\* completes: the timeout ends the wait.
C3_EveryCallSettles ==
    \A id \in 1..MaxCalls :
        (id <= Len(calls) /\ calls[id].racing) ~> (id <= Len(calls) /\ ~calls[id].racing)

\* A call was ended by its timeout while its inference was still running.
C3_Witness ==
    /\ last.settledBy = "timeout"
    /\ \E id \in 1..Len(calls) : ~calls[id].racing /\ calls[id].infer = "pending"

\* C4: detectObjects returns an empty list and raises nothing whenever the
\* model is not loaded or the width or height of the source is 0.
C4_NotReadyYieldsEmptyList ==
    (last.settledBy = "entry" /\ (last.notReady \/ last.src = "zeroSize"))
        => (last.phase = "returned" /\ last.result = <<>> /\ last.error = "")

\* A zero-size source met a loaded model, after a call made before loading.
C4_Witness ==
    /\ Len(calls) = 2
    /\ last.settledBy = "entry" /\ last.src = "zeroSize" /\ ~last.notReady
    /\ modelLoaded

\* The names under which detectObjects looks for the output tensor of a call.
NamesTried(call) == {call.outputName} \cup {fallbackNames[k] : k \in 1..Len(fallbackNames)}

\* C5: if the outputs hold no tensor under the first output name of the model
\* nor under a fallback name, detectObjects raises an explicit error.
C5_MissingTensorRaises ==
    (last.settledBy = "inference" /\ NamesTried(last) \cap DOMAIN last.outputs = {})
        => (last.phase = "threw" /\ last.error = NoOutputTensorError)

\* Inference resolved with a tensor under an unknown name only.
C5_Witness ==
    /\ last.settledBy = "inference"
    /\ DOMAIN last.outputs = {"other"}
    /\ last.phase = "threw"

\* C6: a runtime error of the inference call, raised before the timeout, is
\* propagated by detectObjects as it is: neither swallowed nor turned into an
\* empty list.
C6_RuntimeErrorPropagates ==
    last.settledBy = "inferenceError"
        => (last.phase = "threw" /\ last.error = InferenceRuntimeError)

C6_Witness == last.settledBy = "inferenceError" /\ last.phase = "threw"

\* C7: a call that meets an output whose vector width is neither
\* 4 + classCount nor 5 + classCount still returns a detection list, and the
\* mismatch warning has then been logged exactly once in the life of the
\* service.
C7_MismatchWarnedExactlyOnce ==
    (last.tensor # "none" /\ ChannelMismatch(Tensors[last.tensor].dims))
        => (last.phase = "returned" /\ mismatchWarnings = 1)

\* C19: the detections of a call depend on the output tensor of its inference
\* alone: whatever calls came before and whatever state they left
\* (hasLoggedModelInfo), a call that decodes a tensor returns the detections
\* that postprocessOutput computes from that tensor, so two calls that
\* receive the same tensor return the same list.
C19_ResultFromTensorAlone ==
    (last.settledBy = "inference" /\ last.tensor # "none")
        => /\ last.phase = "returned"
           /\ last.result = postprocessOutput(Tensors[last.tensor])

\* A call decoded the tensor of twelve values per anchor after an earlier call
\* had set hasLoggedModelInfo (it logged no warning), and returned detections.
C19_Witness ==
    /\ last.settledBy = "inference"
    /\ last.tensor = "wide"
    /\ ~last.warned
    /\ last.result # <<>>

\* C20: after a cycle of useObjectDetection whose inference timed out, the
\* detection list the hook surfaces is empty and its error state is unchanged,
\* as after a cycle in which detectObjects returned [] for a source that was
\* not ready.
C20_TimeoutSurfacesEmptyList ==
    ( /\ last.caller \in {"loop", "image", "once"}
      /\ \/ last.settledBy = "timeout"
         \/ last.settledBy = "entry" /\ last.phase = "returned" )
        => (detections = <<>> /\ error = "")

\* C21: a call of detectObjects on a source of width 0 or height 0 returns
\* before preprocessImage and session.run: it builds no input tensor, starts
\* no inference and no timeout, and is settled at its entry.
C21_ZeroSizeSkipsInference ==
    /\ \A id \in 1..Len(calls) :
           calls[id].src = "zeroSize" =>
               /\ calls[id].infer = "none"
               /\ ~calls[id].racing
               /\ \A k \in 1..Len(timers) : timers[k].call # id
    /\ last.src = "zeroSize" =>
           (last.settledBy = "entry" /\ last.tensor = "none" /\ last.outputs = NoOutputs)

\* With the model loaded, a call on a zero-size source was made while
\* another call, on a frame, awaits its inference.
C21_Witness ==
    /\ modelLoaded
    /\ ~ModelNotReady
    /\ \E id, other \in 1..Len(calls) :
           /\ calls[id].src = "zeroSize"
           /\ last.id = id
           /\ ~last.notReady
           /\ calls[other].src = "frame"
           /\ calls[other].infer = "pending"

\* C22: once the wait of a call has been ended by the timeout, the output its
\* inference produces later is not decoded and reaches no list: when that
\* inference settles, the record of the last settled call, the list the hook
\* surfaces and the decoder's log state stay as they are.
C22_LateOutputDiscarded ==
    [][ \A id \in 1..Len(calls) :
            ( /\ ~calls[id].racing
              /\ calls[id].infer = "pending"
              /\ calls'[id].infer # "pending" )
                => UNCHANGED <<last, detections, hasLoggedModelInfo, mismatchWarnings>> ]_vars

\* The only call made was ended by its timeout, the hook surfaced nothing for
\* it, and its inference has settled since.
C22_Witness ==
    /\ Len(calls) = 1
    /\ calls[1].src = "frame"
    /\ calls[1].infer = "settled"
    /\ last.id = 1
    /\ last.settledBy = "timeout"
    /\ last.caller \in {"image", "once"}
    /\ detections = <<>>

\* C30: modelLoaded is true only if the session exists and has at least one
\* input name and one output name (the states in which detectObjects goes on
\* to inference).
C30_LoadedMeansUsableSession ==
    modelLoaded =>
        /\ session # <<>>
        /\ session[1].inputNames # <<>>
        /\ session[1].outputNames # <<>>

\* C28: the result of an older cycle never replaces the result of a cycle
\* that started after it: when the hook surfaces the list a call returned
\* while it shows the list of another call, the call surfaced now is the one
\* made later.
C28_NewerResultNotOverwritten ==
    [][ ( /\ last' # last
          /\ last'.caller \in {"loop", "image", "once"}
          /\ last'.phase = "returned"
          /\ last.caller \in {"loop", "image", "once"}
          /\ last.phase = "returned"
          /\ detections = FilterByThreshold(last.result) )
            => last'.id > last.id ]_vars

C26_StoppedCycleNotSurfaced ==
    [][ \A id \in 1..Len(calls) :
            ( /\ ~isDetectingRef
              /\ calls[id].caller \in {"loop", "image"}
              /\ calls'[id].caller = "none" )
                => detections' = detections ]_vars

\* C27: while detection runs, one detectLoop chain is alive: one pending
\* detectLoop timer at most.
C27_OneLoopChain == isDetectingRef => Chains <= 1

\* ------------------------------------------------------------------------
\* Properties of applyNMS
\* ------------------------------------------------------------------------
Elements(seq) == {seq[k] : k \in 1..Len(seq)}

\* C8: no detection is removed because of a detection of another class: for
\* every class, the detections of that class in the output are the result of
\* suppressing the inputs of that class alone.
C8_ClassesSuppressedApart ==
    nmsPc \in {"once", "twice"} =>
        \A c \in NmsClasses :
            ClassDetections(nmsOut, c) = applyNMS(ClassDetections(nmsIn, c))

\* A right_thumb at 0.9 inside a right_hand at 0.95, and a right_thumb that
\* overlaps the right_hand by IoU 0.7: all three survive.
C8_Witness ==
    /\ nmsPc = "once"
    /\ nmsIn = << [class |-> "right_thumb", confidence |-> 9000, bbox |-> NmsBoxes[4]],
                  [class |-> "right_hand", confidence |-> 9500, bbox |-> NmsBoxes[1]],
                  [class |-> "right_thumb", confidence |-> 6000, bbox |-> NmsBoxes[2]] >>
    /\ Elements(nmsOut) = Elements(nmsIn)

\* C9: the output holds no two detections of one class whose IoU exceeds the
\* threshold, and of two inputs of one class with IoU above the threshold the
\* one of lower confidence is removed whenever the other one is kept.
C9_NoOverlappingPairSurvives ==
    nmsPc \in {"once", "twice"} =>
        /\ \A i, j \in 1..Len(nmsOut) :
               (i # j /\ nmsOut[i].class = nmsOut[j].class)
                   => ~IouExceeds(calculateIoU(nmsOut[i].bbox, nmsOut[j].bbox),
                                  iouThresholdDefault)
        /\ \A i, j \in 1..Len(nmsIn) :
               ( /\ nmsIn[i].class = nmsIn[j].class
                 /\ nmsIn[i].confidence > nmsIn[j].confidence
                 /\ IouExceeds(calculateIoU(nmsIn[i].bbox, nmsIn[j].bbox),
                               iouThresholdDefault)
                 /\ nmsIn[i] \in Elements(nmsOut) )
                   => nmsIn[j] \notin Elements(nmsOut)

\* Two detections of one class at 0.9 and 0.6 with IoU 0.7: only the first
\* survives.
C9_Witness ==
    /\ nmsPc = "once"
    /\ nmsIn = << [class |-> "right_hand", confidence |-> 6000, bbox |-> NmsBoxes[2]],
                  [class |-> "right_hand", confidence |-> 9000, bbox |-> NmsBoxes[1]] >>
    /\ nmsOut = << [class |-> "right_hand", confidence |-> 9000, bbox |-> NmsBoxes[1]] >>

\* C10: applyNMS is idempotent: applied to its own output it yields the same
\* list.
C10_Idempotent == nmsPc = "twice" => nmsAgain = nmsOut

\* Something was suppressed and detections of two classes were kept.
C10_Witness ==
    /\ nmsPc = "twice"
    /\ Len(nmsOut) < Len(nmsIn)
    /\ \E i, j \in 1..Len(nmsOut) : nmsOut[i].class # nmsOut[j].class

\* The reference algorithm of the specification: one pass over all candidates
\* in descending confidence order; a candidate is discarded iff its IoU with
\* an already-kept detection of its own class exceeds the threshold.
RECURSIVE ReferencePass(_, _)
ReferencePass(candidates, kept) ==
    IF candidates = <<>> THEN kept
    ELSE LET candidate == Head(candidates)
             discard == \E k \in 1..Len(kept) :
                            /\ kept[k].class = candidate.class
                            /\ IouExceeds(calculateIoU(candidate.bbox, kept[k].bbox),
                                          iouThresholdDefault)
         IN  ReferencePass(Tail(candidates),
                           IF discard THEN kept ELSE Append(kept, candidate))

ReferenceNMS(dets) == ReferencePass(SortByConfidence(dets), <<>>)

\* How often d occurs in seq.
Occurrences(seq, d) == Cardinality({k \in 1..Len(seq) : seq[k] = d})

\* C23: applyNMS, which works class by class, keeps exactly the detections
\* the single pass in globally descending confidence order keeps: the same
\* detections, each as often.
C23_SameAsSinglePass ==
    nmsPc \in {"once", "twice"} =>
        /\ Elements(nmsOut) = Elements(ReferenceNMS(nmsIn))
        /\ \A d \in Elements(nmsOut) :
               Occurrences(nmsOut, d) = Occurrences(ReferenceNMS(nmsIn), d)

\* Two classes interleaved in confidence order: the two algorithms keep the
\* same three detections and return them in different orders.
C23_Witness ==
    /\ nmsPc = "once"
    /\ Len(nmsOut) = 3
    /\ nmsOut # ReferenceNMS(nmsIn)
    /\ nmsIn[1].class # nmsIn[2].class

DecodedDetections == Elements(decCandidates) \cup Elements(decOut)

\* C11: every detection postprocessOutput emits has a bbox with 0 <= x <= 1,
\* 0 <= y <= 1, width >= 0, height >= 0, x + width <= 1 and y + height <= 1,
\* and an anchor whose clamped box has x + width > 1 or y + height > 1 is
\* never emitted.
C11_BoxesWithinUnitSquare ==
    decPc = "decoded" =>
        /\ \A d \in DecodedDetections :
               /\ d.bbox[1] >= 0 /\ d.bbox[1] <= BoxOne
               /\ d.bbox[2] >= 0 /\ d.bbox[2] <= BoxOne
               /\ d.bbox[3] >= 0 /\ d.bbox[4] >= 0
               /\ d.bbox[1] + d.bbox[3] <= BoxOne
               /\ d.bbox[2] + d.bbox[4] <= BoxOne
        /\ \A k \in 1..Len(decAnchors) :
               ( \/ decAnchors[k].box[1] + decAnchors[k].box[3] > BoxOne
                 \/ decAnchors[k].box[2] + decAnchors[k].box[4] > BoxOne )
                   => decAnchors[k].pushed = <<>>

\* One anchor above the threshold was discarded for x + width > 1 or
\* y + height > 1, another was emitted with a box that ends on the border.
C11_Witness ==
    /\ decPc = "decoded"
    /\ \E k \in 1..Len(decAnchors) :
           /\ decAnchors[k].passed
           /\ decAnchors[k].pushed = <<>>
           /\ \/ decAnchors[k].box[1] + decAnchors[k].box[3] > BoxOne
              \/ decAnchors[k].box[2] + decAnchors[k].box[4] > BoxOne
    /\ \E d \in Elements(decOut) : d.bbox[2] + d.bbox[4] = BoxOne

\* C12: every detection returned has a confidence within [0, 1].
C12_ConfidenceWithinUnit ==
    decPc = "decoded" =>
        \A d \in Elements(decOut) :
            d.confidence >= 0 /\ d.confidence <= ScoreOne * ScoreOne

\* C15: the layout follows from the shape [1, d2, d3] alone: channel-first
\* with numVectors = d2 and numAnchors = d3 if d3 > d2, attribute a of
\* anchor i being read at a * numAnchors + i; anchor-first otherwise (also
\* for d2 = d3) with numAnchors = d2 and numVectors = d3, attribute a of
\* anchor i being read at i * numVectors + a; [1, 10, 8400] is channel-first
\* with 8400 anchors of 10 values.
C15_LayoutFromShape ==
    decPc = "decoded" =>
        LET d2 == decIn.dims[2]
            d3 == decIn.dims[3]
            channelFirst == d3 > d2
            numAnchors == IF channelFirst THEN d3 ELSE d2
            numVectors == IF channelFirst THEN d2 ELSE d3
            FlatIndex(a, i) == IF channelFirst THEN a * numAnchors + i
                               ELSE i * numVectors + a
            Geometry(r) == <<r.cx, r.cy, r.w, r.h>>
        IN  /\ ResolveLayout(decIn.dims) =
                   [numVectors |-> numVectors, numAnchors |-> numAnchors,
                    isChannelFirst |-> channelFirst]
            /\ Len(decAnchors) = numAnchors
            /\ \A k \in 1..Len(decAnchors) : \A a \in 0..3 :
                   FlatIndex(a, k - 1) < Len(decIn.data)
                       => Geometry(decAnchors[k].reading)[a + 1] =
                              decIn.data[FlatIndex(a, k - 1) + 1]
            /\ ResolveLayout(<<1, 10, 8400>>) =
                   [numVectors |-> 10, numAnchors |-> 8400, isChannelFirst |-> TRUE]

\* A channel-first tensor of 11 anchors was decoded and gave a detection.
C15_Witness ==
    /\ decPc = "decoded"
    /\ decIn.dims = <<1, 10, 11>>
    /\ decCandidates # <<>>

\* The largest element of a non-empty set of integers.
SetMax(S) == CHOOSE m \in S : \A x \in S : x <= m

\* C16: with numVectors = 5 + classCount the objectness is read from
\* attribute 4 and the class scores from attributes 5 .. 5 + classCount - 1;
\* with numVectors = 4 + classCount the objectness is 1.0 and the class
\* scores are read from attributes 4 .. 4 + classCount - 1; objectness is
\* read in no other case.
C16_ObjectnessByWidth ==
    decPc = "decoded" =>
        LET layout == ResolveLayout(decIn.dims)
            classCount == Len(classNames)
            Attr(a, i) == decIn.data[AttrIndex(layout, a, i) + 1]
            Scores(first, i) == {Attr(a, i) : a \in first..(first + classCount - 1)}
        IN  \A k \in 1..Len(decAnchors) :
                LET r == decAnchors[k].reading IN
                /\ layout.numVectors = 5 + classCount
                       => /\ r.obj = Attr(4, k - 1)
                          /\ r.maxClassScore = SetMax(Scores(5, k - 1))
                /\ layout.numVectors = 4 + classCount
                       => /\ r.obj = ScoreOne
                          /\ r.maxClassScore = SetMax(Scores(4, k - 1))
                /\ layout.numVectors # 5 + classCount => r.obj = ScoreOne

\* A tensor of 5 + 6 values per anchor gave a detection whose objectness
\* is below 1.
C16_Witness ==
    /\ decPc = "decoded"
    /\ decIn.dims = <<1, 11, 12>>
    /\ \E k \in 1..Len(decAnchors) :
           decAnchors[k].pushed # <<>> /\ decAnchors[k].reading.obj = 90

Emittable(b) ==
    /\ b[1] >= 0 /\ b[2] >= 0 /\ b[3] >= 0 /\ b[4] >= 0
    /\ b[1] + b[3] <= BoxOne /\ b[2] + b[4] <= BoxOne

\* C13: calculateIoU(b, b) is 1 for every box b that postprocessOutput can
\* emit.
C13_IdenticalBoxesGiveOne ==
    (iouPc \in {"once", "both"} /\ iouA = iouB /\ Emittable(iouA))
        => (~IsNaN(iouAB) /\ iouAB[1] = iouAB[2])

\* The right edge of one box is left of the left edge of the other, or the
\* bottom of one is above the top of the other.
Apart(a, b) ==
    \/ a[1] + a[3] < b[1] \/ b[1] + b[3] < a[1]
    \/ a[2] + a[4] < b[2] \/ b[2] + b[4] < a[2]

\* C14: calculateIoU(a, b) = calculateIoU(b, a) for all boxes a and b, and
\* calculateIoU returns 0 for two boxes that do not overlap.
C14_SymmetricAndZeroApart ==
    /\ iouPc = "both" => iouAB = iouBA
    /\ (iouPc \in {"once", "both"} /\ Apart(iouA, iouB)) => iouAB = <<0, 1>>

\* Two boxes of different areas that overlap in part.
C14_Witness ==
    /\ iouPc = "both"
    /\ iouA[3] * iouA[4] # iouB[3] * iouB[4]
    /\ iouAB[1] > 0 /\ iouAB[1] < iouAB[2]

\* ------------------------------------------------------------------------
\* Properties of preprocessImage
\* ------------------------------------------------------------------------
\* C18: for a source of W x H pixels and a target size S the tensor has
\* 3 * S * S elements, each within [0, 1], in planar order (channel c of pixel
\* p at c * S * S + p), and a position the drawn drawWidth x drawHeight region
\* does not cover holds 128/255 in its three channels.
C18_LetterboxedPlanarTensor ==
    prePc = "done" =>
        LET S == TargetSize
            W == preCanvas.width
            H == preCanvas.height
            \* covered rows or columns, in units of 1/(2 * W) or 1/(2 * H)
            Outside(px, py) ==
                IF W > H
                THEN \/ 2 * W * (py + 1) <= S * (W - H)
                     \/ 2 * W * py >= S * (W - H) + 2 * S * H
                ELSE \/ 2 * H * (px + 1) <= S * (H - W)
                     \/ 2 * H * px >= S * (H - W) + 2 * S * W
            Inside(px, py) ==
                IF W > H
                THEN /\ 2 * W * py >= S * (W - H)
                     /\ 2 * W * (py + 1) <= S * (W - H) + 2 * S * H
                ELSE /\ 2 * H * px >= S * (H - W)
                     /\ 2 * H * (px + 1) <= S * (H - W) + 2 * S * W
            Element(c, px, py) == preTensor[c * S * S + (py * S + px) + 1]
        IN  /\ Len(preTensor) = 3 * S * S
            /\ \A k \in 1..Len(preTensor) : preTensor[k] >= 0 /\ preTensor[k] <= 255
            /\ \A px, py \in 0..(S - 1) :
                   /\ Outside(px, py) => \A c \in 0..2 : Element(c, px, py) = 128
                   /\ Inside(px, py) =>
                          \E sx \in 0..(W - 1), sy \in 0..(H - 1) :
                              \A c \in 0..2 :
                                  Element(c, px, py) = Pixel(preCanvas, sx, sy)[c + 1]

\* A landscape source whose picture leaves rows of padding above and below
\* the rows it covers, with channels that differ.
C18_Witness ==
    /\ prePc = "done"
    /\ preCanvas = [width |-> 2, height |-> 1, image |-> "ramp"]
    /\ preTensor[1] = 128
    /\ \E k \in 1..Len(preTensor) : preTensor[k] = 250

====
